---- MODULE Spec2Model ----
(***************************************************************************)
(* Model of prongbang/fiberhandler: the JWT payload extractor              *)
(* (JWTParser.ParseToken) and the request handler adapter                  *)
(* (apiHandler.Do, apiHandler.DoMultipart) with its helpers.               *)
(*                                                                         *)
(* Strings are sequences of one-character strings.  A Go pointer is a      *)
(* sequence of length 0 (nil) or 1 (the pointee).                          *)
(***************************************************************************)
EXTENDS Integers, Sequences, FiniteSets, TLC

VARIABLES
    c,            \* the fiber.Ctx of the request in flight (request side)
    requestPtr,   \* the request object handed to Do / DoMultipart
    call,         \* the arguments and operation of the call made
    log,          \* the calls the handler made, in order
    responses,    \* what was written to the response, in order
    read,         \* the token sources the handler read
    parserArgs,   \* the token strings handed to the token parser
    ret,          \* the handler's return value
    tokenString,  \* ParseToken: the argument of the first call
    parsed,       \* ParseToken: the result of the first call
    otherToken,   \* ParseToken: the argument of the second call
    otherParsed   \* ParseToken: the result of the second call

vars == <<c, requestPtr, call, log, responses, read, parserArgs, ret,
          tokenString, parsed, otherToken, otherParsed>>

handlerVars == <<c, requestPtr, call, log, responses, read, parserArgs, ret>>

parserVars == <<tokenString, parsed, otherToken, otherParsed>>

----------------------------------------------------------------------------
(* Bounds *)

\* longest token string of the first ParseToken call
MaxTokenLen == 5

\* longest first / third part of the token of the second ParseToken call
MaxOuterLen == 1

----------------------------------------------------------------------------
(* JWTParser.ParseToken *)

\* the characters token strings are made of: the separator, three characters
\* of the URL-safe base64 alphabet and the padding character
Chars == {".", "e", "3", "0", "="}

RECURSIVE SeqsUpTo(_, _)
SeqsUpTo(S, n) ==
    IF n = 0 THEN {<<>>}
    ELSE LET shorter == SeqsUpTo(S, n - 1)
         IN  shorter \cup {Append(s, x) : s \in shorter, x \in S}

\* strings.Split(s, "."): the substrings between the separators
RECURSIVE Split(_)
Split(s) ==
    IF s = <<>> THEN << <<>> >>
    ELSE LET r == Split(Tail(s))
         IN  IF Head(s) = "." THEN << <<>> >> \o r
             ELSE << <<Head(s)>> \o r[1] >> \o Tail(r)

\* strings.Repeat("=", n)
RECURSIVE Repeat(_, _)
Repeat(ch, n) == IF n <= 0 THEN <<>> ELSE <<ch>> \o Repeat(ch, n - 1)

\* payload += strings.Repeat("=", 4-m) when m = len(payload) % 4 is not 0
AddPadding(payload) ==
    LET m == Len(payload) % 4
    IN  IF m # 0 THEN payload \o Repeat("=", 4 - m) ELSE payload

\* the 6-bit values of the URL-safe alphabet (A-Z a-z 0-9 - _)
B64Val == ("e" :> 30) @@ ("3" :> 55) @@ ("0" :> 52)

IsB64(ch) == ch \in DOMAIN B64Val

\* the bytes of a quantum of n characters (n in 2..4), low bits dropped
QuantumBytes(q, n) ==
    LET v(i) == IF i <= n THEN B64Val[q[i]] ELSE 0
        bits == v(1) * 262144 + v(2) * 4096 + v(3) * 64 + v(4)
        all  == << bits \div 65536, (bits \div 256) % 256, bits % 256 >>
    IN  SubSeq(all, 1, n - 1)

\* base64.URLEncoding.DecodeString: padded, quanta of four characters
RECURSIVE DecodeString(_)
DecodeString(s) ==
    IF s = <<>> THEN [err |-> FALSE, bytes |-> <<>>]
    ELSE IF Len(s) < 4 THEN [err |-> TRUE, bytes |-> <<>>]
    ELSE LET q    == SubSeq(s, 1, 4)
             rest == SubSeq(s, 5, Len(s))
         IN  IF \A i \in 1..4 : IsB64(q[i])
             THEN LET r == DecodeString(rest)
                  IN  IF r.err THEN r
                      ELSE [err |-> FALSE, bytes |-> QuantumBytes(q, 4) \o r.bytes]
             ELSE IF IsB64(q[1]) /\ IsB64(q[2]) /\ q[3] = "=" /\ q[4] = "="
                     /\ rest = <<>>
             THEN [err |-> FALSE, bytes |-> QuantumBytes(q, 2)]
             ELSE IF IsB64(q[1]) /\ IsB64(q[2]) /\ IsB64(q[3]) /\ q[4] = "="
                     /\ rest = <<>>
             THEN [err |-> FALSE, bytes |-> QuantumBytes(q, 3)]
             ELSE [err |-> TRUE, bytes |-> <<>>]

\* json.Unmarshal(decoded, &claims.Type) for a struct T: the JSON texts that
\* fit in the decoded bytes are the empty object and null; both leave the
\* zero value of T
Unmarshal(bytes) ==
    IF bytes = <<123, 125>> \/ bytes = <<110, 117, 108, 108>>
    THEN [err |-> FALSE, value |-> "T{}"]
    ELSE [err |-> TRUE, value |-> ""]

\* a result of ParseToken: the claims pointer and the error
ParseResult(claims, err) == [claims |-> claims, err |-> err]

\* the token parser with a signature-presence check added
ParseTokenSigned(tok) ==
    LET parts == Split(tok)
    IN  IF Len(parts) # 3 \/ parts[3] = <<>>
        THEN ParseResult(<<>>, "invalid JWT format")
        ELSE LET decoded == DecodeString(AddPadding(parts[2]))
             IN  IF decoded.err
                 THEN ParseResult(<<>>, "failed to decode JWT payload")
                 ELSE LET u == Unmarshal(decoded.bytes)
                      IN  IF u.err
                          THEN ParseResult(<<>>, "failed to unmarshal JWT payload")
                          ELSE ParseResult(<<u.value>>, "")

\* the token parser checking only that the payload part exists
ParseTokenLoose(tok) ==
    LET parts == Split(tok)
    IN  IF Len(parts) < 2
        THEN ParseResult(<<>>, "invalid JWT format")
        ELSE LET decoded == DecodeString(AddPadding(parts[2]))
             IN  IF decoded.err
                 THEN ParseResult(<<>>, "failed to decode JWT payload")
                 ELSE LET u == Unmarshal(decoded.bytes)
                      IN  IF u.err
                          THEN ParseResult(<<>>, "failed to unmarshal JWT payload")
                          ELSE ParseResult(<<u.value>>, "")

\* JWTParser.ParseToken
ParseToken(tok) ==
    LET parts == Split(tok)
    IN  IF Len(parts) # 3
        THEN ParseResult(<<>>, "invalid JWT format")
        ELSE LET decoded == DecodeString(AddPadding(parts[2]))
             IN  IF decoded.err
                 THEN ParseResult(<<>>, "failed to decode JWT payload")
                 ELSE LET u == Unmarshal(decoded.bytes)
                      IN  IF u.err
                          THEN ParseResult(<<>>, "failed to unmarshal JWT payload")
                          ELSE ParseResult(<<u.value>>, "")

\* no call made yet
NoResult == ParseResult(<<>>, "pending")

----------------------------------------------------------------------------
(* Values of the handler *)

\* the data a callback returns: nil, a plain value or a *streamx.Stream
\* (Size is a *int64)
MakeData(type, contentType, filename, size) ==
    [type |-> type, contentType |-> contentType, filename |-> filename,
     size |-> size]

NilData == MakeData("nil", "", "", <<>>)

PlainData == MakeData("plain", "", "", <<>>)

StreamData == {MakeData("stream", "text/csv", "report.csv", sz) : sz \in {<<>>, <<7>>}}

\* an error value: the goerror body (code, message, data)
MakeError(code, message, data) == [code |-> code, message |-> message, data |-> data]

\* the nil error
NilErr == MakeError("nil", "", NilData)

IsNil(err) == err = NilErr

\* goerror.NewBadRequest(message...)
NewBadRequest(message) == MakeError("BadRequest", message, NilData)

\* goerror.NewOK(data)
NewOK(data) == MakeError("OK", "", data)

\* NewDataInvalidError
NewDataInvalidError == MakeError("CLE029", "Invalid data provided", NilData)

\* the (data, error) pairs a callback returns
MakeResult(data, err) == [data |-> data, err |-> err]

CallbackResults ==
    {MakeResult(d, NilErr) : d \in {NilData, PlainData} \cup StreamData}
      \cup {MakeResult(NilData, MakeError("E404", "not found", NilData)),
            MakeResult(PlainData, MakeError("E500", "failed", NilData))}

\* what a write to the response is: a JSON envelope or a stream with its
\* attachment header and, when passed, its explicit size
JsonWrite(err) ==
    [kind |-> "json", envelope |-> err, attachment |-> <<>>, size |-> <<>>,
     stream |-> NilData]

StreamWrite(stream, size) ==
    [kind |-> "stream", envelope |-> NilErr,
     attachment |-> <<stream.contentType, stream.filename>>, size |-> size,
     stream |-> stream]

\* the token strings a request carries in its Authorization header (after
\* core.ExtractToken), in the "token" field of its body and in the "token"
\* field of its form: none, a well-formed token, or a malformed one (no
\* three-part string, an undecodable payload, a payload that is no JSON)
BearerTokens == {<<>>, <<"e", ".", "e", "3", "0", ".">>, <<"e", "3", "0">>}

BodyTokens == {<<>>, <<".", "e", "3", "0", ".", "e">>, <<".", "e", ".">>}

FormTokens == {<<>>, <<".", "e", "3", "0", ".">>, <<".", "e", "3", ".">>}

Methods == {"GET", "DELETE", "POST", "PUT"}

\* the request objects: nil, a plain struct, a struct implementing
\* core.Request, multipartx.Request, or both
RequestKinds == {"nil", "plain", "core", "multipart", "multipartcore"}

ImplementsCoreRequest(req) == req.kind \in {"core", "multipartcore"}

ImplementsMultipartRequest(req) == req.kind \in {"multipart", "multipartcore"}

\* the state of one execution of a handler: the request object and what the
\* handler did so far
MakeExec(req) ==
    [req |-> req, log |-> <<>>, responses |-> <<>>, read |-> {},
     parserArgs |-> <<>>]

Logged(st, event) == [st EXCEPT !.log = Append(@, event)]

\* an outcome of a helper that returns an error
Outcome(err, st) == [err |-> err, st |-> st]

----------------------------------------------------------------------------
(* Helpers of the handler *)

\* h.Response.With(c).Response(err): writes the envelope of err
Response(st, err) ==
    [Logged(st, "Response") EXCEPT !.responses = Append(@, JsonWrite(err))]

\* the value h.Response.With(c).Response(err) returns, which the route
\* handler returns to the framework: the result of sending the envelope,
\* nil once it is written
ResponseResult == NilErr

\* apiHandler.sendStream
sendStream(st, streamData) ==
    [Logged(st, "SendStream") EXCEPT
        !.responses = Append(@,
            IF streamData.size # <<>>
            THEN StreamWrite(streamData, streamData.size)
            ELSE StreamWrite(streamData, <<>>))]

\* c.BodyParser(&accessToken); accessToken.Token
AccessToken(ctx) == IF ctx.bodyOK THEN ctx.bodyToken ELSE <<>>

\* a token outcome: the token string and the execution state
TokenOutcome(token, st) == [token |-> token, st |-> st]

\* apiHandler.getRequestToken
getRequestToken(ctx, st) ==
    LET s1 == [st EXCEPT !.read = @ \cup {"authorization"}]
    IN  IF ctx.bearer = <<>>
        THEN TokenOutcome(AccessToken(ctx),
                 [Logged(s1, "AccessTokenBodyParser") EXCEPT !.read = @ \cup {"body"}])
        ELSE TokenOutcome(ctx.bearer, s1)

\* the closure of getUserRequestInfo falling back to the header for a form
onRequestTokenFallback(ctx, st) ==
    IF ctx.isMultipart /\ ctx.formToken # <<>>
    THEN TokenOutcome(ctx.formToken, [st EXCEPT !.read = @ \cup {"form"}])
    ELSE getRequestToken(ctx, st)

\* the closure getUserRequestInfo passes to getRequestInfo
onRequestToken(ctx, st) ==
    IF ctx.isMultipart
    THEN TokenOutcome(ctx.formToken, [st EXCEPT !.read = @ \cup {"form"}])
    ELSE getRequestToken(ctx, st)

\* a claims outcome: the claims pointer and the execution state
ClaimsOutcome(claims, st) == [claims |-> claims, st |-> st]

\* getRequestInfo keeping what the parser returned beside its error
getRequestInfoIgnoringErr(st, tequestToken) ==
    IF tequestToken = <<>>
    THEN ClaimsOutcome(<<>>, st)
    ELSE LET s1 == [Logged(st, "ParseToken") EXCEPT
                       !.parserArgs = Append(@, tequestToken)]
         IN  ClaimsOutcome(<<"T{}">>, s1)

\* apiHandler.getRequestInfo, given the token onRequestToken(c) returned
getRequestInfo(st, tequestToken) ==
    IF tequestToken = <<>>
    THEN ClaimsOutcome(<<>>, st)
    ELSE LET s1 == [Logged(st, "ParseToken") EXCEPT
                       !.parserArgs = Append(@, tequestToken)]
             tokenData == ParseToken(tequestToken)
         IN  IF tokenData.err # ""
             THEN ClaimsOutcome(<<>>, s1)
             ELSE ClaimsOutcome(tokenData.claims, s1)

\* apiHandler.getUserRequestInfo
getUserRequestInfo(ctx, st) ==
    LET t == onRequestToken(ctx, st)
    IN  getRequestInfo(t.st, t.token)

\* requestInfo := &core.RequestInfo[T]{Claims: ...}; SetRequestInfo when the
\* request implements core.Request
InjectRequestInfo(ctx, st) ==
    LET info == getUserRequestInfo(ctx, st)
        requestInfo == [Claims |-> info.claims]
    IN  IF ImplementsCoreRequest(info.st.req)
        THEN [Logged(info.st, "SetRequestInfo") EXCEPT !.req.info = <<requestInfo>>]
        ELSE info.st

\* h.Validate.Struct(requestPtr): nil is no struct
ValidateStruct(req) ==
    IF req.kind = "nil" \/ ~req.valid
    THEN MakeError("validation", "Key: 'Request.Field' Error", NilData)
    ELSE NilErr

----------------------------------------------------------------------------
(* apiHandler.Do *)

\* apiHandler.requestParserIfNeeded: the error it returns is the value
\* Response returned
requestParserIfNeeded(ctx, st) ==
    IF st.req.kind = "nil"
    THEN Outcome(NilErr, st)
    ELSE IF ctx.method \in {"GET", "DELETE"}
    THEN LET s1 == Logged(st, "QueryParser")
         IN  IF ~ctx.queryOK
             THEN Outcome(ResponseResult, Response(s1, NewBadRequest("")))
             ELSE Outcome(NilErr, [s1 EXCEPT !.req.parsed = "query"])
    ELSE LET s1 == Logged(st, "BodyParser")
         IN  IF ~ctx.bodyOK
             THEN Outcome(ResponseResult, Response(s1, NewBadRequest("")))
             ELSE Outcome(NilErr, [s1 EXCEPT !.req.parsed = "body"])

\* what a handler returns: the value and the execution state
Return(value, st) == [ret |-> value, st |-> st]

\* a step of a handler that may return: whether it did, with what
Step(returned, value, st) == [returned |-> returned, ret |-> value, st |-> st]

\* the validation step answering with the validator's own error
validateOwnError(validateRequest, st) ==
    IF validateRequest
    THEN LET s1 == Logged(st, "Validate")
         IN  IF ~IsNil(ValidateStruct(st.req))
             THEN Step(TRUE, ResponseResult, Response(s1, ValidateStruct(st.req)))
             ELSE Step(FALSE, NilErr, s1)
    ELSE Step(FALSE, NilErr, st)

\* if validateRequest { err := h.Validate.Struct(requestPtr) ... }
validateIfNeeded(validateRequest, st) ==
    IF validateRequest
    THEN LET s1 == Logged(st, "Validate")
         IN  IF ~IsNil(ValidateStruct(st.req))
             THEN Step(TRUE, ResponseResult, Response(s1, NewDataInvalidError))
             ELSE Step(FALSE, NilErr, s1)
    ELSE Step(FALSE, NilErr, st)

\* the end of Do wrapping the data before looking at the error
respondDataFirst(result, st) ==
    LET s1 == Logged(st, "doFunc")
    IN  IF result.data.type = "stream"
        THEN Return(NilErr, sendStream(s1, result.data))
        ELSE IF result.data.type # "nil"
        THEN Return(ResponseResult, Response(s1, NewOK(result.data)))
        ELSE IF ~IsNil(result.err)
        THEN Return(ResponseResult, Response(s1, result.err))
        ELSE Return(ResponseResult, Response(s1, NewOK(result.data)))

\* the end of Do: data, err := doFunc(...) and the response for it
respond(result, st) ==
    LET s1 == Logged(st, "doFunc")
    IN  IF ~IsNil(result.err)
        THEN Return(ResponseResult, Response(s1, result.err))
        ELSE IF result.data.type = "stream"
        THEN Return(NilErr, sendStream(s1, result.data))
        ELSE Return(ResponseResult, Response(s1, NewOK(result.data)))

\* apiHandler.Do
Do(ctx, req, validateRequest, result) ==
    LET p == requestParserIfNeeded(ctx, MakeExec(req))
    IN  IF ~IsNil(p.err)
        THEN Return(p.err, p.st)
        ELSE LET v == validateIfNeeded(validateRequest, p.st)
             IN  IF v.returned
                 THEN Return(v.ret, v.st)
                 ELSE respond(result, InjectRequestInfo(ctx, v.st))

----------------------------------------------------------------------------
(* apiHandler.DoMultipart *)

\* c.MultipartForm() fails for a body that is no well-formed multipart form
MultipartFormErr(ctx) == ~ctx.isMultipart \/ ~ctx.bodyOK

\* the loop over FormFields(): typex.SetField of each form value
processFormFields(ctx, st) ==
    IF ~ctx.fieldsOK
    THEN Step(TRUE, ResponseResult,
              Response(st, NewBadRequest("Invalid value for field 'name'")))
    ELSE Step(FALSE, NilErr, [st EXCEPT !.req.fields = "set"])

\* the loop over FileFields(): a file is kept unless validation is on, types
\* are given and its MIME type is not among them
processFileFields(ctx, validateRequest, allowedTypes, st) ==
    LET filtering == validateRequest /\ allowedTypes # {}
    IN  IF ctx.file = "absent"
        THEN st
        ELSE IF filtering
        THEN IF ctx.file \in allowedTypes
             THEN [st EXCEPT !.req.file = "set"]
             ELSE st
        ELSE [st EXCEPT !.req.file = "set"]

\* the end of DoMultipart: data, err := doFunc(...) and the response for it
respondMultipart(result, st) ==
    LET s1 == Logged(st, "doFunc")
    IN  IF ~IsNil(result.err)
        THEN Return(ResponseResult, Response(s1, result.err))
        ELSE Return(ResponseResult, Response(s1, NewOK(result.data)))

\* apiHandler.DoMultipart
DoMultipart(ctx, req, validateRequest, allowedTypes, result) ==
    LET st == MakeExec(req)
    IN  IF ctx.method = "GET" \/ ctx.method = "DELETE"
        THEN Return(NilErr, st)
        ELSE IF req.kind = "nil"
        THEN Return(NilErr, st)
        ELSE LET s1 == Logged(st, "MultipartForm")
             IN  IF MultipartFormErr(ctx)
                 THEN Return(ResponseResult, Response(s1, NewBadRequest("")))
                 ELSE IF ~ImplementsMultipartRequest(req)
                 THEN Return(ResponseResult,
                             Response(s1, NewBadRequest("Invalid request type")))
                 ELSE LET f == processFormFields(ctx, s1)
                      IN  IF f.returned
                          THEN Return(f.ret, f.st)
                          ELSE LET s2 == processFileFields(ctx, validateRequest,
                                                           allowedTypes, f.st)
                                   v  == validateIfNeeded(validateRequest, s2)
                               IN  IF v.returned
                                   THEN Return(v.ret, v.st)
                                   ELSE respondMultipart(result,
                                            InjectRequestInfo(ctx, v.st))

----------------------------------------------------------------------------
(* The requests and the calls *)

\* a request object before the handler touched it (valid: what the validator
\* says of it)
MakeRequest(kind, valid) ==
    [kind |-> kind, valid |-> valid, parsed |-> "none", info |-> <<>>,
     fields |-> "unset", file |-> "unset"]

Requests ==
    {MakeRequest("nil", FALSE)}
      \cup {MakeRequest(k, v) : k \in RequestKinds \ {"nil"}, v \in BOOLEAN}

\* the MIME types of an uploaded file, and "absent" for no file
FileTypes == {"image/png", "text/plain"}

\* the allowedTypes arguments
AllowedTypes == {{}, {"image/png"}}

\* the requests: method, content type, whether the query, the body and the
\* form values parse, the tokens carried, the uploaded file
Contexts ==
    {[method |-> m, isMultipart |-> FALSE, queryOK |-> q, bodyOK |-> b,
      fieldsOK |-> TRUE, file |-> "absent",
      bearer |-> t1, bodyToken |-> t2, formToken |-> <<>>] :
        m \in Methods, q \in BOOLEAN, b \in BOOLEAN,
        t1 \in BearerTokens, t2 \in BodyTokens}
      \cup
    {[method |-> m, isMultipart |-> TRUE, queryOK |-> q, bodyOK |-> b,
      fieldsOK |-> f[1], file |-> f[2],
      bearer |-> t1, bodyToken |-> <<>>, formToken |-> t3] :
        m \in Methods, q \in BOOLEAN, b \in BOOLEAN,
        f \in {<<FALSE, "absent">>} \cup ({TRUE} \X (FileTypes \cup {"absent"})),
        t1 \in BearerTokens, t3 \in FormTokens}

NoCall == [op |-> "none", validateRequest |-> FALSE, allowedTypes |-> {},
           result |-> MakeResult(NilData, NilErr)]

\* a request has arrived at a handler made by New and no handler has run
Init ==
    /\ c \in Contexts
    /\ requestPtr \in Requests
    /\ call = NoCall
    /\ log = <<>>
    /\ responses = <<>>
    /\ read = {}
    /\ parserArgs = <<>>
    /\ ret = <<>>
    /\ tokenString = <<>>
    /\ parsed = NoResult
    /\ otherToken = <<>>
    /\ otherParsed = NoResult

\* the state a handler leaves
Finish(r) ==
    /\ requestPtr' = r.st.req
    /\ log' = r.st.log
    /\ responses' = r.st.responses
    /\ read' = r.st.read
    /\ parserArgs' = r.st.parserArgs
    /\ ret' = <<r.ret>>

\* the route handler calls Do
DoCall ==
    /\ call.op = "none"
    /\ \E validateRequest \in BOOLEAN, result \in CallbackResults :
          /\ call' = [op |-> "Do", validateRequest |-> validateRequest,
                      allowedTypes |-> {}, result |-> result]
          /\ Finish(Do(c, requestPtr, validateRequest, result))
    /\ UNCHANGED <<c, parserVars>>

\* the route handler calls DoMultipart
DoMultipartCall ==
    /\ call.op = "none"
    /\ \E validateRequest \in BOOLEAN, allowedTypes \in AllowedTypes,
          result \in CallbackResults :
          /\ call' = [op |-> "DoMultipart", validateRequest |-> validateRequest,
                      allowedTypes |-> allowedTypes, result |-> result]
          /\ Finish(DoMultipart(c, requestPtr, validateRequest, allowedTypes,
                                result))
    /\ UNCHANGED <<c, parserVars>>

Next == DoCall \/ DoMultipartCall

Spec == Init /\ [][Next]_vars

----------------------------------------------------------------------------
(* Calls of ParseToken *)

\* the token strings of the first call
Tokens == SeqsUpTo(Chars, MaxTokenLen)

\* the first and third parts of the token of the second call
OuterParts == SeqsUpTo({"e", "="}, MaxOuterLen)

\* the request and the request object of a handler that is not running
IdleContext ==
    [method |-> "GET", isMultipart |-> FALSE, queryOK |-> TRUE, bodyOK |-> TRUE,
     fieldsOK |-> TRUE, file |-> "absent",
     bearer |-> <<>>, bodyToken |-> <<>>, formToken |-> <<>>]

\* a token string is about to be parsed
InitParser ==
    /\ c = IdleContext
    /\ requestPtr = MakeRequest("nil", FALSE)
    /\ call = NoCall
    /\ log = <<>>
    /\ responses = <<>>
    /\ read = {}
    /\ parserArgs = <<>>
    /\ ret = <<>>
    /\ tokenString \in Tokens
    /\ parsed = NoResult
    /\ otherToken = <<>>
    /\ otherParsed = NoResult

\* ParseToken(tokenString)
ParseTokenCall ==
    /\ parsed = NoResult
    /\ parsed' = ParseToken(tokenString)
    /\ UNCHANGED <<tokenString, otherToken, otherParsed, handlerVars>>

\* ParseToken of a token with the payload of the first and any header and
\* signature
ParseTokenResigned ==
    /\ parsed # NoResult
    /\ otherParsed = NoResult
    /\ Len(Split(tokenString)) = 3
    /\ \E header \in OuterParts, signature \in OuterParts :
          LET tok == header \o <<".">> \o Split(tokenString)[2] \o <<".">>
                       \o signature
          IN  /\ otherToken' = tok
              /\ otherParsed' = ParseToken(tok)
    /\ UNCHANGED <<tokenString, parsed, handlerVars>>

NextParser == ParseTokenCall \/ ParseTokenResigned

SpecParser == InitParser /\ [][NextParser]_vars

----------------------------------------------------------------------------
(* Properties *)

\* the positions of an event in the log
Positions(event) == {i \in DOMAIN log : log[i] = event}

Happened(event) == Positions(event) # {}

\* the stage of Do an event belongs to
StageOf(event) ==
    CASE event \in {"QueryParser", "BodyParser", "MultipartForm"} -> 1
      [] event = "Validate" -> 2
      [] event \in {"AccessTokenBodyParser", "ParseToken", "SetRequestInfo"} -> 3
      [] event = "doFunc" -> 4
      [] event \in {"Response", "SendStream"} -> 5

\* the writes to the response made after the callback returned
WritesAfterCallback ==
    {i \in DOMAIN log : /\ log[i] \in {"Response", "SendStream"}
                        /\ \E j \in Positions("doFunc") : j < i}

LastResponse == responses[Len(responses)]

OKEnvelopes == {i \in DOMAIN responses : /\ responses[i].kind = "json"
                                         /\ responses[i].envelope.code = "OK"}

\* the request failed to parse in requestParserIfNeeded
ParseFailed ==
    /\ requestPtr.kind # "nil"
    /\ IF c.method \in {"GET", "DELETE"} THEN ~c.queryOK ELSE ~c.bodyOK

\* the token the closure of getUserRequestInfo returned, once it ran
TokenStageReached == read # {}

ExtractedToken == IF parserArgs = <<>> THEN <<>> ELSE parserArgs[1]

\* C1: in every call of Do the stages run in the order parse, validate,
\* request-info injection, callback, response; the callback runs at most once
\* and never before the injection is complete
C1_StagesInOrder ==
    call.op = "Do" =>
        /\ \A i, j \in DOMAIN log : i < j => StageOf(log[i]) <= StageOf(log[j])
        /\ Cardinality(Positions("doFunc")) <= 1
        /\ \A i \in Positions("doFunc"), j \in DOMAIN log :
              StageOf(log[j]) = 3 => j < i

\* C2: in Do the validator is not consulted when validateRequest is false;
\* when it is true and the validator rejects the request, the response is the
\* envelope with code CLE029 and message "Invalid data provided" and the
\* callback is not invoked
C2_ValidationGates ==
    call.op = "Do" =>
        /\ ~call.validateRequest => ~Happened("Validate")
        /\ (call.validateRequest /\ ~IsNil(ValidateStruct(requestPtr))) =>
              /\ Happened("Validate")
              /\ LastResponse.kind = "json"
              /\ LastResponse.envelope.code = "CLE029"
              /\ LastResponse.envelope.message = "Invalid data provided"
              /\ ~Happened("doFunc")

C2_Witness ==
    /\ call.op = "Do"
    /\ call.validateRequest
    /\ ~IsNil(ValidateStruct(requestPtr))
    /\ requestPtr.parsed = "body"
    /\ Len(responses) = 1
    /\ responses[1].envelope.code = "CLE029"

\* C3: in Do and DoMultipart, once the callback returned an error the one
\* response written for it is the envelope of that error and no OK envelope is
\* written; once it returned no error and data that is no stream, the one
\* response written for it is the OK envelope with that data, the only OK
\* envelope of the call
C3_CallbackResultMapped ==
    Happened("doFunc") =>
        /\ ~IsNil(call.result.err) =>
              /\ Cardinality(WritesAfterCallback) = 1
              /\ LastResponse.kind = "json"
              /\ LastResponse.envelope = call.result.err
              /\ OKEnvelopes = {}
        /\ (IsNil(call.result.err) /\ call.result.data.type # "stream") =>
              /\ Cardinality(WritesAfterCallback) = 1
              /\ LastResponse.kind = "json"
              /\ LastResponse.envelope.code = "OK"
              /\ LastResponse.envelope.data = call.result.data
              /\ Cardinality(OKEnvelopes) = 1

C3_Witness ==
    /\ call.op = "DoMultipart"
    /\ Happened("doFunc")
    /\ call.result.data.type = "plain"
    /\ ~IsNil(call.result.err)
    /\ responses = <<JsonWrite(call.result.err)>>

\* C4: in Do, when the callback returns no error and a stream, the response is
\* a stream with the attachment header of the stream's content type and
\* filename, with the size when Size is set and without it otherwise, and no
\* JSON envelope is written in that call
C4_StreamOnly ==
    (/\ call.op = "Do"
     /\ Happened("doFunc")
     /\ IsNil(call.result.err)
     /\ call.result.data.type = "stream") =>
        /\ LastResponse.kind = "stream"
        /\ LastResponse.attachment =
              <<call.result.data.contentType, call.result.data.filename>>
        /\ LastResponse.size = call.result.data.size
        /\ \A i \in DOMAIN responses : responses[i].kind # "json"

\* C5: two token strings of three parts with the same middle part have the
\* same outcome of ParseToken, whatever their first and third parts
C5_OnlyPayloadCounts ==
    (/\ otherParsed # NoResult
     /\ Len(Split(tokenString)) = 3
     /\ Len(Split(otherToken)) = 3
     /\ Split(tokenString)[2] = Split(otherToken)[2]) =>
        otherParsed = parsed

C5_Witness ==
    /\ otherParsed # NoResult
    /\ parsed.err = ""
    /\ Split(tokenString)[1] # Split(otherToken)[1]
    /\ Split(tokenString)[3] # Split(otherToken)[3]
    /\ Split(tokenString)[2] = Split(otherToken)[2]

\* C6: ParseToken returns nil claims and an error for every token string that
\* does not split into exactly three parts, and never claims together with an
\* error
C6_MalformedRejected ==
    parsed # NoResult =>
        /\ Len(Split(tokenString)) # 3 =>
              (parsed.claims = <<>> /\ parsed.err # "")
        /\ ~(parsed.claims # <<>> /\ parsed.err # "")

C6_Witness ==
    /\ parsed # NoResult
    /\ Len(Split(tokenString)) = 4
    /\ Split(tokenString)[2] # <<>>
    /\ parsed.claims = <<>>
    /\ parsed.err = "invalid JWT format"

\* C7: in Do with a request object, the request is parsed from the query for
\* GET and DELETE and from the body for every other method; when that parse
\* fails the response is the BadRequest envelope and neither the validator nor
\* the callback is invoked
C7_ParseFailureStops ==
    (call.op = "Do" /\ requestPtr.kind # "nil") =>
        /\ IF c.method \in {"GET", "DELETE"}
           THEN Happened("QueryParser") /\ ~Happened("BodyParser")
           ELSE Happened("BodyParser") /\ ~Happened("QueryParser")
        /\ ParseFailed =>
              /\ responses = <<JsonWrite(NewBadRequest(""))>>
              /\ ~Happened("Validate")
              /\ ~Happened("doFunc")

\* C8: in Do and DoMultipart, when the extracted token is empty or the parser
\* fails on it, the request info carries nil Claims and the callback is
\* invoked; Claims is set only for a non-empty token the parser accepted
C8_TokenNeverFails ==
    TokenStageReached =>
        /\ (ExtractedToken = <<>> \/ ParseToken(ExtractedToken).err # "") =>
              /\ Happened("doFunc")
              /\ ImplementsCoreRequest(requestPtr) =>
                    requestPtr.info = << [Claims |-> <<>>] >>
        /\ (requestPtr.info # <<>> /\ requestPtr.info[1].Claims # <<>>) =>
              /\ ExtractedToken # <<>>
              /\ ParseToken(ExtractedToken).err = ""

C8_Witness ==
    /\ TokenStageReached
    /\ ExtractedToken # <<>>
    /\ ParseToken(ExtractedToken).err = "failed to decode JWT payload"
    /\ Happened("doFunc")
    /\ requestPtr.info = << [Claims |-> <<>>] >>

\* C9: the token handed on is the form field "token" alone for a multipart
\* request, the Authorization header not being read; otherwise it is the
\* bearer token of the header, and the body's "token" only when that is empty
C9_TokenPrecedence ==
    TokenStageReached =>
        IF c.isMultipart
        THEN /\ read = {"form"}
             /\ ExtractedToken = c.formToken
        ELSE /\ "authorization" \in read
             /\ "form" \notin read
             /\ c.bearer # <<>> =>
                   (ExtractedToken = c.bearer /\ "body" \notin read)
             /\ c.bearer = <<>> =>
                   ExtractedToken = (IF c.bodyOK THEN c.bodyToken ELSE <<>>)

C9_Witness ==
    /\ TokenStageReached
    /\ c.isMultipart
    /\ c.bearer # <<>>
    /\ c.formToken = <<>>
    /\ ExtractedToken = <<>>
    /\ Happened("doFunc")

\* C10: DoMultipart with GET or DELETE, or with a nil request object, returns
\* nil with no callback and no response; every other path of DoMultipart and
\* every path of Do writes exactly one response
C10_OneResponse ==
    /\ call.op = "DoMultipart" =>
          IF c.method \in {"GET", "DELETE"} \/ requestPtr.kind = "nil"
          THEN ret = <<NilErr>> /\ ~Happened("doFunc") /\ responses = <<>>
          ELSE Len(responses) = 1
    /\ call.op = "Do" => Len(responses) = 1

====
